---- MODULE Spec2Model ----
(***************************************************************************)
(* gob_easing: the own-math arithmetic kernel (namespace math) and the     *)
(* easing catalog of src/src/gob_easing.hpp, in the build that defines     *)
(* GOBLIB_EASING_USING_OWN_MATH, instantiated for T = float.               *)
(*                                                                         *)
(* The C++ operators + - * / and the comparisons on float and double are   *)
(* IEEE-754 binary32 / binary64 operations (round to nearest, ties to      *)
(* even, gradual underflow, signed zero, infinities, NaN), each operation  *)
(* rounded once to its own type (no excess precision, no contraction).     *)
(* TLC's integers are 32 bits wide, so a significand is held in 14-bit     *)
(* limbs, least significant first.                                         *)
(***************************************************************************)
EXTENDS Integers, Sequences, FiniteSets, TLC

B == 2 ^ 14

Min(a, b) == IF a <= b THEN a ELSE b

\* limb i of a, 0 outside it
L(a, i) == IF i >= 1 /\ i <= Len(a) THEN a[i] ELSE 0

\* bit length of a limb, 0 <= x < 2^14
LimbLen(x) == IF x >= 128
              THEN IF x >= 2048
                   THEN IF x >= 8192 THEN 14
                        ELSE (IF x >= 4096 THEN 13 ELSE 12)
                   ELSE IF x >= 512 THEN (IF x >= 1024 THEN 11 ELSE 10)
                        ELSE (IF x >= 256 THEN 9 ELSE 8)
              ELSE IF x >= 8
                   THEN IF x >= 32 THEN (IF x >= 64 THEN 7 ELSE 6)
                        ELSE (IF x >= 16 THEN 5 ELSE 4)
                   ELSE IF x >= 2 THEN (IF x >= 4 THEN 3 ELSE 2)
                        ELSE x

RECURSIVE BitLenFrom(_, _)
BitLenFrom(a, i) ==
    IF i = 0 THEN 0
    ELSE IF a[i] # 0 THEN 14 * (i - 1) + LimbLen(a[i])
    ELSE BitLenFrom(a, i - 1)

\* bit length of the natural a
BitLen(a) == BitLenFrom(a, Len(a))

\* bit i (from 0) of a
Bit(a, i) == (L(a, (i \div 14) + 1) \div (2 ^ (i % 14))) % 2

\* some bit of a below bit n is 1
LowNonzero(a, n) ==
    \/ \E i \in 1..Min(n \div 14, Len(a)) : a[i] # 0
    \/ L(a, (n \div 14) + 1) % (2 ^ (n % 14)) # 0

RECURSIVE Carry(_, _, _)
\* the limbs of c + the sum of s[j] * B^(j-i) over j >= i, and the carry out
\* as the last of them; a digit s[j] may be any integer
Carry(s, i, c) ==
    IF i > Len(s) THEN <<c>>
    ELSE LET t == s[i] + c
         IN  <<t % B>> \o Carry(s, i + 1, t \div B)

\* limb i of a * 2^n
ShlAt(a, i, n) ==
    ((L(a, i - (n \div 14)) * (2 ^ (n % 14))) % B)
        + (L(a, i - (n \div 14) - 1) \div (2 ^ (14 - (n % 14))))

\* limb i of floor(a / 2^n)
ShrAt(a, i, n) ==
    (L(a, i + (n \div 14)) \div (2 ^ (n % 14)))
        + (L(a, i + (n \div 14) + 1) % (2 ^ (n % 14))) * (2 ^ (14 - (n % 14)))

RECURSIVE CmpFrom(_, _, _)
\* -1, 0, 1 as a < b, a = b, a > b, limbs i down to 1
CmpFrom(a, b, i) ==
    IF i = 0 THEN 0
    ELSE IF a[i] # b[i] THEN (IF a[i] < b[i] THEN -1 ELSE 1)
    ELSE CmpFrom(a, b, i - 1)

\* a (four limbs) times the limb k: five limbs
MulSmall4(a, k) == Carry(<<a[1] * k, a[2] * k, a[3] * k, a[4] * k>>, 1, 0)

\* a * b for four-limb a and b: eight limbs
Mul4(a, b) ==
    Carry(<<a[1] * b[1],
            a[1] * b[2] + a[2] * b[1],
            a[1] * b[3] + a[2] * b[2] + a[3] * b[1],
            a[1] * b[4] + a[2] * b[3] + a[3] * b[2] + a[4] * b[1],
            a[2] * b[4] + a[3] * b[3] + a[4] * b[2],
            a[3] * b[4] + a[4] * b[3],
            a[4] * b[4]>>, 1, 0)

(***************************************************************************)
(* floor(r / d) for a five-limb r < d * 2^14 and a four-limb d with its    *)
(* top bit set: the digit estimated from the top limbs is at most 2 too    *)
(* large.                                                                  *)
(***************************************************************************)
Digit(r, d) ==
    LET est == Min(B - 1, (r[5] * B + r[4]) \div d[4])
    IN  IF CmpFrom(MulSmall4(d, est), r, 5) <= 0 THEN est
        ELSE IF CmpFrom(MulSmall4(d, est - 1), r, 5) <= 0 THEN est - 1
        ELSE est - 2

\* (r - q * d) * 2^14
Rest(r, d, q) ==
    <<0>> \o SubSeq(Carry(<<r[1] - d[1] * q, r[2] - d[2] * q, r[3] - d[3] * q,
                            r[4] - d[4] * q, r[5]>>, 1, 0), 1, 4)

RECURSIVE DivLoop(_, _, _, _)
\* n more digits of the quotient q, most significant first, and whether the
\* division is exact
DivLoop(r, d, q, n) ==
    IF n = 0 THEN [q |-> q, exact |-> r = <<0, 0, 0, 0, 0>>]
    ELSE LET g == Digit(r, d)
         IN  DivLoop(Rest(r, d, g), d, <<g>> \o q, n - 1)

(***************************************************************************)
(* IEEE-754 binary floating point.  A value is                             *)
(*   [cls, neg, exp, man, fmt]                                             *)
(* cls "num": (-1)^neg * (man / 2^55) * 2^exp with man a four-limb         *)
(* significand whose top bit (bit 55) is set, or man and exp 0 (zero);     *)
(* cls "inf", "nan".                                                       *)
(* fmt is the C++ type, "float" or "double"; an operation on both is done  *)
(* in double (the usual arithmetic conversions).                           *)
(***************************************************************************)
Precision(fmt) == IF fmt = "float" THEN 24 ELSE 53
Emax(fmt) == IF fmt = "float" THEN 127 ELSE 1023

Wider(f, g) == IF f = "double" \/ g = "double" THEN "double" ELSE "float"

Man0 == <<0, 0, 0, 0>>

Zero(fmt, neg) == [cls |-> "num", neg |-> neg, exp |-> 0, man |-> Man0, fmt |-> fmt]
Inf(fmt, neg) == [cls |-> "inf", neg |-> neg, exp |-> 0, man |-> Man0, fmt |-> fmt]
NaN(fmt) == [cls |-> "nan", neg |-> FALSE, exp |-> 0, man |-> Man0, fmt |-> fmt]
\* 2^k: the significand is 1.0
TwoTo(fmt, k) ==
    [cls |-> "num", neg |-> FALSE, exp |-> k, man |-> <<0, 0, 0, B \div 2>>, fmt |-> fmt]

IsZero(x) == x.cls = "num" /\ x.man = Man0
IsNaN(x) == x.cls = "nan"
IsInf(x) == x.cls = "inf"
\* std::isfinite
isfinite(x) == x.cls = "num"

\* the significant bits that fmt holds of a value whose leading bit is 2^e
Kept(fmt, e) ==
    IF e >= 1 - Emax(fmt) THEN Precision(fmt)
    ELSE Precision(fmt) - ((1 - Emax(fmt)) - e)

\* (-1)^neg * k * 2^e, which fmt holds exactly unless it is too large
Pack(fmt, neg, e, k) ==
    LET len == BitLen(k)
    IN  IF len = 0 THEN Zero(fmt, neg)
        ELSE IF e + len - 1 > Emax(fmt) THEN Inf(fmt, neg)
        ELSE [cls |-> "num", neg |-> neg, exp |-> e + len - 1,
              man |-> <<ShlAt(k, 1, 56 - len), ShlAt(k, 2, 56 - len),
                        ShlAt(k, 3, 56 - len), ShlAt(k, 4, 56 - len)>>,
              fmt |-> fmt]

\* a with its r low bits rounded off, ties to even
RoundOff(fmt, neg, e, a, sticky, r) ==
    Pack(fmt, neg, e + r,
         Carry([i \in 1..Len(a) |-> ShrAt(a, i, r)], 1,
               IF /\ r >= 1
                  /\ Bit(a, r - 1) = 1
                  /\ (sticky \/ LowNonzero(a, r - 1) \/ Bit(a, r) = 1)
               THEN 1 ELSE 0))

\* the value of fmt nearest to (-1)^neg * (a + s) * 2^e for a natural a # 0,
\* where 0 <= s < 1 and s # 0 iff sticky
Round(fmt, neg, e, a, sticky) ==
    LET r == BitLen(a) - Kept(fmt, e + BitLen(a) - 1)
    IN  RoundOff(fmt, neg, e, a, sticky, IF r > 0 THEN r ELSE 0)

\* a conversion between the floating-point types
Convert(x, fmt) ==
    IF x.fmt = fmt THEN x
    ELSE IF x.cls # "num" \/ x.man = Man0 \/ fmt = "double" THEN [x EXCEPT !.fmt = fmt]
    ELSE Round(fmt, x.neg, x.exp - 55, x.man, FALSE)

\* an int converted to a floating-point type
IntAs(fmt, i) ==
    IF i = 0 THEN Zero(fmt, FALSE)
    ELSE IF i < 0 THEN Round(fmt, TRUE, 0, <<(-i) % B, ((-i) \div B) % B, (-i) \div (B * B)>>, FALSE)
    ELSE Round(fmt, FALSE, 0, <<i % B, (i \div B) % B, i \div (B * B)>>, FALSE)

fneg(x) == IF IsNaN(x) THEN x ELSE [x EXCEPT !.neg = ~x.neg]

\* magnitudes of two "num" values: -1, 0, 1
CmpMag(a, b) ==
    IF a.man = Man0 THEN (IF b.man = Man0 THEN 0 ELSE -1)
    ELSE IF b.man = Man0 THEN 1
    ELSE IF a.exp < b.exp THEN -1
    ELSE IF a.exp > b.exp THEN 1
    ELSE CmpFrom(a.man, b.man, 4)

\* hi + lo for two nonzero "num" values, hi the larger, lo shifted d bits
\* below it: the sum of the magnitudes (sg = 1) or their difference (sg = -1)
AddNum(fmt, hi, lo, d, sg) ==
    LET lost == LowNonzero(<<0>> \o lo.man, d)
    IN  Round(fmt, hi.neg, hi.exp - 69,
              Carry([i \in 1..5 |-> L(hi.man, i - 1) + sg * ShrAt(<<0>> \o lo.man, i, d)], 1,
                    IF sg = -1 /\ lost THEN -1 ELSE 0),
              lost)

\* operator+
fadd(x, y) ==
    IF IsNaN(x) \/ IsNaN(y) THEN NaN(Wider(x.fmt, y.fmt))
    ELSE IF IsInf(x)
         THEN (IF IsInf(y) /\ x.neg # y.neg THEN NaN(Wider(x.fmt, y.fmt))
               ELSE Inf(Wider(x.fmt, y.fmt), x.neg))
    ELSE IF IsInf(y) THEN Inf(Wider(x.fmt, y.fmt), y.neg)
    ELSE IF IsZero(x)
         THEN (IF IsZero(y) THEN Zero(Wider(x.fmt, y.fmt), x.neg /\ y.neg)
               ELSE [y EXCEPT !.fmt = Wider(x.fmt, y.fmt)])
    ELSE IF IsZero(y) THEN [x EXCEPT !.fmt = Wider(x.fmt, y.fmt)]
    ELSE IF x.neg # y.neg /\ CmpMag(x, y) = 0 THEN Zero(Wider(x.fmt, y.fmt), FALSE)
    ELSE IF CmpMag(x, y) >= 0
         THEN AddNum(Wider(x.fmt, y.fmt), x, y, Min(x.exp - y.exp, 70),
                     IF x.neg = y.neg THEN 1 ELSE -1)
    ELSE AddNum(Wider(x.fmt, y.fmt), y, x, Min(y.exp - x.exp, 70),
                IF x.neg = y.neg THEN 1 ELSE -1)

\* operator-
fsub(x, y) == fadd(x, fneg(y))

\* operator*
fmul(x, y) ==
    IF IsNaN(x) \/ IsNaN(y) THEN NaN(Wider(x.fmt, y.fmt))
    ELSE IF IsInf(x) \/ IsInf(y)
         THEN (IF IsZero(x) \/ IsZero(y) THEN NaN(Wider(x.fmt, y.fmt))
               ELSE Inf(Wider(x.fmt, y.fmt), x.neg # y.neg))
    ELSE IF IsZero(x) \/ IsZero(y) THEN Zero(Wider(x.fmt, y.fmt), x.neg # y.neg)
    ELSE Round(Wider(x.fmt, y.fmt), x.neg # y.neg, x.exp + y.exp - 110,
               Mul4(x.man, y.man), FALSE)

\* the quotient of two nonzero "num" values from the digits of DivLoop:
\* floor(x.man * 2^56 / y.man) as five limbs, and whether it is exact
DivNum(fmt, neg, e, d) == Round(fmt, neg, e, d.q, ~d.exact)

\* operator/
fdiv(x, y) ==
    IF IsNaN(x) \/ IsNaN(y) THEN NaN(Wider(x.fmt, y.fmt))
    ELSE IF IsInf(x)
         THEN (IF IsInf(y) THEN NaN(Wider(x.fmt, y.fmt))
               ELSE Inf(Wider(x.fmt, y.fmt), x.neg # y.neg))
    ELSE IF IsInf(y) THEN Zero(Wider(x.fmt, y.fmt), x.neg # y.neg)
    ELSE IF IsZero(y)
         THEN (IF IsZero(x) THEN NaN(Wider(x.fmt, y.fmt))
               ELSE Inf(Wider(x.fmt, y.fmt), x.neg # y.neg))
    ELSE IF IsZero(x) THEN Zero(Wider(x.fmt, y.fmt), x.neg # y.neg)
    ELSE DivNum(Wider(x.fmt, y.fmt), x.neg # y.neg, x.exp - y.exp - 56, DivLoop(x.man \o <<0>>, y.man, <<>>, 5))

\* -1, 0, 1 as x < y, x == y, x > y; 2 when unordered (a NaN)
Cmp(x, y) ==
    IF IsNaN(x) \/ IsNaN(y) THEN 2
    ELSE IF IsZero(x) /\ IsZero(y) THEN 0
    ELSE IF x.neg /\ ~y.neg THEN -1
    ELSE IF ~x.neg /\ y.neg THEN 1
    ELSE (IF x.neg THEN -1 ELSE 1)
             * (IF IsInf(x) THEN (IF IsInf(y) THEN 0 ELSE 1)
                ELSE IF IsInf(y) THEN -1
                ELSE CmpMag(x, y))

flt(x, y) == Cmp(x, y) = -1
fle(x, y) == Cmp(x, y) \in {-1, 0}
fge(x, y) == Cmp(x, y) \in {0, 1}
feq(x, y) == Cmp(x, y) = 0

\* the literal num/den read as a double and converted to fmt: T{1.70158}
Lit(fmt, num, den) == Convert(fdiv(IntAs("double", num), IntAs("double", den)), fmt)

\* std::numeric_limits<T>::epsilon()
epsilon(fmt) == TwoTo(fmt, 1 - Precision(fmt))

(***************************************************************************)
(* The instantiation: T is the type the catalog is called with, sin_type   *)
(* the type the elastic functions compute their sine in.                   *)
(***************************************************************************)
T == "float"
\* std::common_type<T, double>::type
sin_type == Wider(T, "double")

\* the depth of calls past which the stack is exhausted
MaxDepth == 64

(***************************************************************************)
(* namespace math: the helpers that make no call                           *)
(***************************************************************************)
abs(x) == IF fge(x, Zero(x.fmt, FALSE)) THEN x ELSE fneg(x)

equal_fp(x, y) == fle(abs(fsub(x, y)), epsilon(x.fmt))

(***************************************************************************)
(* The body of a function is the expression it returns.  An expression is  *)
(* a value, or an operator, a conversion or a call applied to expressions. *)
(***************************************************************************)
Add(x, y) == [op |-> "+", args |-> <<x, y>>]
Sub(x, y) == [op |-> "-", args |-> <<x, y>>]
Mul(x, y) == [op |-> "*", args |-> <<x, y>>]
Div(x, y) == [op |-> "/", args |-> <<x, y>>]
Neg(x) == [op |-> "neg", args |-> <<x>>]
Lt(x, y) == [op |-> "<", args |-> <<x, y>>]
Le(x, y) == [op |-> "<=", args |-> <<x, y>>]
Ge(x, y) == [op |-> ">=", args |-> <<x, y>>]
Eq(x, y) == [op |-> "==", args |-> <<x, y>>]
And(x, y) == [op |-> "&&", args |-> <<x, y>>]
\* c ? x : y
If(c, x, y) == [op |-> "?:", args |-> <<c, x, y>>]
\* (fmt)x, and the conversion of a return or an initialisation
Cast(fmt, x) == [op |-> "cast", fmt |-> fmt, args |-> <<x>>]
\* the int i as an operand of type fmt
OfInt(fmt, i) == [op |-> "int", fmt |-> fmt, i |-> i, args |-> <<>>]
\* the int i as an argument
I(i) == [op |-> "I", i |-> i, args |-> <<>>]
EqualFp(x, y) == [op |-> "equal_fp", args |-> <<x, y>>]
\* fn(a[1], ..)
Call(fn, a) == [op |-> "call", fn |-> fn, args |-> a]
\* the literal num/den as a T: T{1.70158}
Num(fmt, num, den) == Cast(fmt, Div(OfInt("double", num), OfInt("double", den)))

\* the value of the operator of ex on the values v of its operands
Prim(ex, v) ==
    CASE ex.op = "+" -> fadd(v[1], v[2])
      [] ex.op = "-" -> fadd(v[1], fneg(v[2]))
      [] ex.op = "*" -> fmul(v[1], v[2])
      [] ex.op = "/" -> fdiv(v[1], v[2])
      [] ex.op = "neg" -> fneg(v[1])
      [] ex.op = "<" -> Cmp(v[1], v[2]) = -1
      [] ex.op = "<=" -> Cmp(v[1], v[2]) \in {-1, 0}
      [] ex.op = ">=" -> Cmp(v[1], v[2]) \in {0, 1}
      [] ex.op = "==" -> Cmp(v[1], v[2]) = 0
      [] ex.op = "&&" -> v[1] /\ v[2]
      [] ex.op = "cast" -> Convert(v[1], ex.fmt)
      [] ex.op = "int" -> IntAs(ex.fmt, ex.i)
      [] ex.op = "I" -> ex.i
      [] ex.op = "equal_fp" -> equal_fp(v[1], v[2])

(***************************************************************************)
(* A function is followed call by call.  Eval(ex, r, k) evaluates ex, left *)
(* to right, given the values r that the calls made so far returned, k of  *)
(* them consumed: it yields the value v, or the call that ex needs next,   *)
(* which is a tail call when its value is the value of ex (return f(..)).  *)
(***************************************************************************)
Had(v, k) == [v |-> v, k |-> k, need |-> <<>>]
Needs(fn, a, k) == [v |-> a, k |-> k, need |-> <<[fn |-> fn, a |-> a, tail |-> TRUE]>>]
\* the call that an operand needs is no tail call
Inner(h) == [h EXCEPT !.need = <<[@[1] EXCEPT !.tail = FALSE]>>]

RECURSIVE Eval(_, _, _)
RECURSIVE EvalAll(_, _, _, _)

\* the values of the expressions es[i], es[i + 1], ..
EvalAll(es, i, r, k) ==
    IF i > Len(es) THEN Had(<<>>, k)
    ELSE LET h == Eval(es[i], r, k)
             t == EvalAll(es, i + 1, r, h.k)
         IN  IF h.need # <<>> THEN Inner(h)
             ELSE IF t.need # <<>> THEN t
             ELSE Had(<<h.v>> \o t.v, t.k)

Eval(ex, r, k) ==
    IF "cls" \in DOMAIN ex THEN Had(ex, k)
    ELSE IF ex.op = "?:"
    THEN LET c == Eval(ex.args[1], r, k)
         IN  IF c.need # <<>> THEN Inner(c)
             ELSE IF c.v THEN Eval(ex.args[2], r, c.k)
             ELSE Eval(ex.args[3], r, c.k)
    ELSE LET a == EvalAll(ex.args, 1, r, k)
         IN  IF a.need # <<>> THEN a
             ELSE IF ex.op # "call" THEN Had(Prim(ex, a.v), a.k)
             ELSE IF a.k < Len(r) THEN Had(r[a.k + 1], a.k + 1)
             ELSE Needs(ex.fn, a.v, a.k)

\* the value of an expression that makes no call
V(ex) == Eval(ex, <<>>, 0).v

(***************************************************************************)
(* namespace constants                                                     *)
(***************************************************************************)
\* the double 3.14159265358979323846: 0x400921FB54442D18
pi ==
    Cast(T, [cls |-> "num", neg |-> FALSE, exp |-> 1,
             man |-> <<10432, 2181, 15786, 12867>>, fmt |-> "double"])
half_pi == Mul(pi, Num(T, 5, 10))
pi2 == Mul(pi, Num(T, 2, 1))
\* e<T>(): the double 2.71828182845904523536, 0x4005BF0A8B145769, as a T
e(fmt) ==
    Cast(fmt, [cls |-> "num", neg |-> FALSE, exp |-> 1,
               man |-> <<15176, 8842, 1349, 11134>>, fmt |-> "double"])
back_factor == Num(T, 170158, 100000)
back_factor2 == Mul(back_factor, Num(T, 1525, 1000))
elastic_factor == Div(pi2, Num(T, 3, 1))
elastic_factor2 == Div(pi2, Num(T, 45, 10))
bounce_factor == Num(T, 275, 100)
bounce_factor2 == Num(T, 75625, 10000)

\* T{0}, T{1}, T{2}, T{0.5} of the type fmt
K0(fmt) == Zero(fmt, FALSE)
K1(fmt) == TwoTo(fmt, 0)
K2(fmt) == TwoTo(fmt, 1)
KHalf(fmt) == TwoTo(fmt, -1)

(***************************************************************************)
(* namespace math, GOBLIB_EASING_USING_OWN_MATH                            *)
(***************************************************************************)
\* sqrt_impl that hands prev on in place of curr
sqrt_impl_stale(x, curr, prev) ==
    If(EqualFp(curr, prev), curr,
       Call("sqrt_impl", <<x, Mul(KHalf(x.fmt), Add(curr, Div(x, curr))), prev>>))

sqrt_impl(x, curr, prev) ==
    If(EqualFp(curr, prev), curr,
       Call("sqrt_impl", <<x, Mul(KHalf(x.fmt), Add(curr, Div(x, curr))), curr>>))

\* sqrt that iterates on every x
sqrt_unguarded(x) == Call("sqrt_impl", <<x, x, K0(x.fmt)>>)

sqrt(x) ==
    If(And(Ge(x, K0(x.fmt)), Lt(x, Inf(x.fmt, FALSE))),
       Call("sqrt_impl", <<x, x, K0(x.fmt)>>),
       If(Lt(x, OfInt(x.fmt, 0)), NaN(x.fmt), Inf(x.fmt, FALSE)))

\* exp_impl that divides every term by the first denominator
exp_impl_flat(x, sum, n, i, t) ==
    If(EqualFp(sum, Add(sum, Div(t, n))), sum,
       Call("exp_impl", <<x, Add(sum, Div(t, n)), n, I(i + 1), Mul(t, x)>>))

exp_impl(x, sum, n, i, t) ==
    If(EqualFp(sum, Add(sum, Div(t, n))), sum,
       Call("exp_impl", <<x, Add(sum, Div(t, n)), Mul(n, OfInt(x.fmt, i)), I(i + 1), Mul(t, x)>>))

exp(x) == Call("exp_impl", <<x, K1(x.fmt), K1(x.fmt), I(2), x>>)

log_iter(x, y) ==
    Add(y, Div(Mul(K2(x.fmt), Sub(x, Call("exp", <<y>>))), Add(x, Call("exp", <<y>>))))

log(x, y) == If(EqualFp(y, log_iter(x, y)), y, Call("log", <<x, log_iter(x, y)>>))

\* the least value of U = int
INT_MIN == -2147483647 - 1

\* -y in U: -INT_MIN is no int, and what the program does then is undefined
minus(y) == IF y = INT_MIN THEN Call("overflow", <<I(y)>>) ELSE I(-y)

\* pow(T, U) for an integral U
pow_int(x, y) ==
    IF y = 0 THEN K1(x.fmt)
    ELSE IF y = 1 THEN x
    ELSE IF y > 1
         THEN (IF y % 2 = 1 THEN Mul(x, Call("pow_int", <<x, I(y - 1)>>))
               ELSE Mul(Call("pow_int", <<x, I(y \div 2)>>), Call("pow_int", <<x, I(y \div 2)>>)))
    ELSE Div(K1(x.fmt), Call("pow_int", <<x, minus(y)>>))

\* pow(T, T) for a floating-point T
pow(x, y) ==
    If(Eq(y, Inf(x.fmt, FALSE)), Inf(x.fmt, FALSE),
       If(Eq(y, Inf(x.fmt, TRUE)), K0(x.fmt),
          Call("exp", <<Mul(Call("log", <<x, e(x.fmt)>>), y)>>)))

\* the platform's pow(x, y) at y = +-infinity: std::pow follows Annex F of C
std_pow_inf(x, y) ==
    IF feq(abs(x), K1(x.fmt)) THEN K1(x.fmt)
    ELSE IF flt(abs(x), K1(x.fmt)) = feq(y, Inf(x.fmt, FALSE)) THEN K0(x.fmt)
    ELSE Inf(x.fmt, FALSE)

\* sincos_impl that keeps the sign of the term
sincos_impl_unsigned(x, sum, n, i, s, t) ==
    If(EqualFp(sum, Add(sum, Div(Mul(t, OfInt(x.fmt, s)), n))), sum,
       Call("sincos_impl",
            <<x, Add(sum, Div(Mul(t, OfInt(x.fmt, s)), n)),
              Mul(Mul(n, OfInt(x.fmt, i)), OfInt(x.fmt, i + 1)),
              I(i + 2), I(s), Mul(Mul(t, x), x)>>))

sincos_impl(x, sum, n, i, s, t) ==
    If(EqualFp(sum, Add(sum, Div(Mul(t, OfInt(x.fmt, s)), n))), sum,
       Call("sincos_impl",
            <<x, Add(sum, Div(Mul(t, OfInt(x.fmt, s)), n)),
              Mul(Mul(n, OfInt(x.fmt, i)), OfInt(x.fmt, i + 1)),
              I(i + 2), I(-s), Mul(Mul(t, x), x)>>))

sin(x) == Call("sincos_impl", <<x, x, OfInt(x.fmt, 6), I(4), I(-1), Mul(Mul(x, x), x)>>)

cos(x) == Call("sincos_impl", <<x, K1(x.fmt), K2(x.fmt), I(3), I(-1), Mul(x, x)>>)

(***************************************************************************)
(* namespace easing: the catalog.  The two expressions of an in-out        *)
(* function are named _1 (first half) and _2.                              *)
(***************************************************************************)
linear(t) == t

inSinusoidal(t) == Add(Neg(Call("cos", <<Mul(t, half_pi)>>)), K1(T))

outSinusoidal(t) == Call("sin", <<Mul(t, half_pi)>>)

inOutSinusoidal(t) == Mul(Neg(KHalf(T)), Sub(Call("cos", <<Mul(t, pi)>>), K1(T)))

inQuadratic(t) == Mul(t, t)

\* outQuadratic with the sign of the product lost
outQuadratic_unsigned(t) == Mul(t, Sub(t, Num(T, 2, 1)))

outQuadratic(t) == Mul(Neg(t), Sub(t, Num(T, 2, 1)))

inOutQuadratic_1(t) == Mul(Mul(KHalf(T), Mul(t, K2(T))), Mul(t, K2(T)))

\* the second half with - T{2} for its last - T{1}
inOutQuadratic_2_shifted(t) ==
    Mul(Neg(KHalf(T)),
        Sub(Mul(Sub(Mul(t, K2(T)), K1(T)), Sub(Sub(Mul(t, K2(T)), K1(T)), K2(T))), K2(T)))

inOutQuadratic_2(t) ==
    Mul(Neg(KHalf(T)),
        Sub(Mul(Sub(Mul(t, K2(T)), K1(T)), Sub(Sub(Mul(t, K2(T)), K1(T)), K2(T))), K1(T)))

inOutQuadratic(t) ==
    If(Lt(Mul(t, K2(T)), Num(T, 1, 1)), inOutQuadratic_1(t), inOutQuadratic_2(t))

inCubic(t) == Mul(Mul(t, t), t)

outCubic(t) == Add(Mul(Mul(Sub(t, K1(T)), Sub(t, K1(T))), Sub(t, K1(T))), K1(T))

inOutCubic_1(t) == Mul(Mul(Mul(KHalf(T), Mul(t, K2(T))), Mul(t, K2(T))), Mul(t, K2(T)))

\* the second half with + T{1} for its + T{2}
inOutCubic_2_one(t) ==
    LET u == Sub(Mul(t, K2(T)), K2(T))
    IN  Mul(KHalf(T), Add(Mul(Mul(u, u), u), K1(T)))

inOutCubic_2(t) ==
    LET u == Sub(Mul(t, K2(T)), K2(T))
    IN  Mul(KHalf(T), Add(Mul(Mul(u, u), u), K2(T)))

inOutCubic(t) == If(Lt(Mul(t, K2(T)), K1(T)), inOutCubic_1(t), inOutCubic_2(t))

inQuartic(t) == Mul(Mul(Mul(t, t), t), t)

outQuartic(t) ==
    LET u == Sub(t, K1(T))
    IN  Neg(Sub(Mul(Mul(Mul(u, u), u), u), K1(T)))

inOutQuartic_1(t) ==
    LET u == Mul(t, K2(T))
    IN  Mul(Mul(Mul(Mul(KHalf(T), u), u), u), u)

inOutQuartic_2(t) ==
    LET u == Sub(Mul(t, K2(T)), K2(T))
    IN  Mul(Neg(KHalf(T)), Sub(Mul(Mul(Mul(u, u), u), u), K2(T)))

inOutQuartic(t) == If(Lt(Mul(t, K2(T)), K1(T)), inOutQuartic_1(t), inOutQuartic_2(t))

inQuintic(t) == Mul(Mul(Mul(Mul(t, t), t), t), t)

outQuintic(t) ==
    LET u == Sub(t, K1(T))
    IN  Add(Mul(Mul(Mul(Mul(u, u), u), u), u), K1(T))

inOutQuintic_1(t) ==
    LET u == Mul(t, K2(T))
    IN  Mul(Mul(Mul(Mul(Mul(KHalf(T), u), u), u), u), u)

inOutQuintic_2(t) ==
    LET u == Sub(Mul(t, K2(T)), K2(T))
    IN  Mul(KHalf(T), Add(Mul(Mul(Mul(Mul(u, u), u), u), u), K2(T)))

inOutQuintic(t) == If(Lt(Mul(t, K2(T)), K1(T)), inOutQuintic_1(t), inOutQuintic_2(t))

inExponential(t) ==
    If(EqualFp(t, K0(T)), K0(T), Call("pow", <<K2(T), Mul(OfInt(T, 10), Sub(t, K1(T)))>>))

\* outExponential without its test of the end point
outExponential_unchecked(t) ==
    Add(Neg(Call("pow", <<K2(T), Mul(Neg(OfInt(T, 10)), t)>>)), K1(T))

outExponential(t) ==
    If(EqualFp(t, K1(T)), K1(T),
       Add(Neg(Call("pow", <<K2(T), Mul(Neg(OfInt(T, 10)), t)>>)), K1(T)))

inOutExponential_1(t) ==
    Mul(KHalf(T), Call("pow", <<K2(T), Mul(OfInt(T, 10), Sub(Mul(t, K2(T)), K1(T)))>>))

inOutExponential_2(t) ==
    Mul(KHalf(T),
        Add(Neg(Call("pow", <<K2(T), Mul(Neg(OfInt(T, 10)), Sub(Mul(t, K2(T)), K1(T)))>>)),
            K2(T)))

\* inOutExponential without its test of the end point 1
inOutExponential_open(t) ==
    If(EqualFp(t, K0(T)), K0(T),
       If(Lt(Mul(t, K2(T)), K1(T)), inOutExponential_1(t), inOutExponential_2(t)))

inOutExponential(t) ==
    If(EqualFp(t, K0(T)), K0(T),
       If(EqualFp(t, K1(T)), K1(T),
          If(Lt(Mul(t, K2(T)), K1(T)), inOutExponential_1(t), inOutExponential_2(t))))

\* inCircular with the operands of its subtraction exchanged
inCircular_swapped(t) == Neg(Sub(Call("sqrt", <<Sub(Mul(t, t), K1(T))>>), K1(T)))

inCircular(t) == Neg(Sub(Call("sqrt", <<Sub(K1(T), Mul(t, t))>>), K1(T)))

outCircular(t) == Call("sqrt", <<Sub(K1(T), Mul(Sub(t, K1(T)), Sub(t, K1(T))))>>)

inOutCircular_1(t) ==
    Mul(Neg(KHalf(T)),
        Sub(Call("sqrt", <<Sub(K1(T), Mul(Mul(t, K2(T)), Mul(t, K2(T))))>>), K1(T)))

inOutCircular_2(t) ==
    LET u == Sub(Mul(t, K2(T)), K2(T))
    IN  Mul(KHalf(T), Add(Call("sqrt", <<Sub(K1(T), Mul(u, u))>>), K1(T)))

inOutCircular(t) == If(Lt(Mul(t, K2(T)), K1(T)), inOutCircular_1(t), inOutCircular_2(t))

inBack(t) == Mul(Mul(t, t), Sub(Mul(Add(back_factor, K1(T)), t), back_factor))

outBack(t) ==
    LET u == Sub(t, K1(T))
    IN  Add(Mul(Mul(u, u), Add(Mul(Add(back_factor, K1(T)), u), back_factor)), K1(T))

inOutBack_1(t) ==
    LET u == Mul(t, K2(T))
    IN  Mul(KHalf(T), Mul(Mul(u, u), Sub(Mul(Add(back_factor2, K1(T)), u), back_factor2)))

inOutBack_2_under(t) ==
    LET u == Sub(Mul(t, K2(T)), K2(T))
    IN  Mul(KHalf(T),
            Add(Mul(Mul(u, u), Sub(Mul(Add(back_factor2, K1(T)), u), back_factor2)), K2(T)))

inOutBack_2(t) ==
    LET u == Sub(Mul(t, K2(T)), K2(T))
    IN  Mul(KHalf(T),
            Add(Mul(Mul(u, u), Add(Mul(Add(back_factor2, K1(T)), u), back_factor2)), K2(T)))

inOutBack(t) == If(Lt(Mul(t, K2(T)), K1(T)), inOutBack_1(t), inOutBack_2(t))

\* inElastic with t < 0 for t <= 0
inElastic_strict(t) ==
    If(Lt(t, K0(T)), K0(T),
       If(Ge(t, K1(T)), K1(T),
          Cast(T, Mul(Neg(Call("pow", <<K2(T), Sub(Mul(OfInt(T, 10), t), OfInt(T, 10))>>)),
                      Call("sin", <<Mul(Cast(sin_type,
                                             Sub(Mul(t, OfInt(T, 10)), Num(T, 1075, 100))),
                                        elastic_factor)>>)))))

\* the product is a sin_type; the return converts it to T
inElastic(t) ==
    If(Le(t, K0(T)), K0(T),
       If(Ge(t, K1(T)), K1(T),
          Cast(T, Mul(Neg(Call("pow", <<K2(T), Sub(Mul(OfInt(T, 10), t), OfInt(T, 10))>>)),
                      Call("sin", <<Mul(Cast(sin_type,
                                             Sub(Mul(t, OfInt(T, 10)), Num(T, 1075, 100))),
                                        elastic_factor)>>)))))

outElastic(t) ==
    If(Le(t, K0(T)), K0(T),
       If(Ge(t, K1(T)), K1(T),
          Cast(T, Add(Mul(Call("pow", <<K2(T), Mul(Neg(OfInt(T, 10)), t)>>),
                          Call("sin", <<Mul(Cast(sin_type,
                                                 Sub(Mul(t, OfInt(T, 10)), Num(T, 75, 100))),
                                            elastic_factor)>>)),
                      K1(T)))))

inOutElastic_1(t) ==
    Cast(T, Mul(Neg(KHalf(T)),
                Mul(Call("pow", <<K2(T), Sub(Mul(OfInt(T, 20), t), OfInt(T, 10))>>),
                    Call("sin", <<Mul(Cast(sin_type,
                                           Sub(Mul(OfInt(T, 20), t), Num(T, 11125, 1000))),
                                      elastic_factor2)>>))))

inOutElastic_2(t) ==
    Cast(T, Add(Mul(KHalf(T),
                    Mul(Call("pow", <<K2(T), Add(Mul(Neg(OfInt(T, 20)), t), OfInt(T, 10))>>),
                        Call("sin", <<Mul(Cast(sin_type,
                                               Sub(Mul(OfInt(T, 20), t), Num(T, 11125, 1000))),
                                          elastic_factor2)>>))),
                K1(T)))

inOutElastic(t) ==
    If(Le(t, K0(T)), K0(T),
       If(Ge(t, K1(T)), K1(T),
          If(Lt(t, KHalf(T)), inOutElastic_1(t), inOutElastic_2(t))))

\* the four segments of outBounce
outBounce_1(t) == Mul(Mul(bounce_factor2, t), t)

\* the second segment with the offset of the third
outBounce_2_high(t) ==
    Add(Mul(Mul(bounce_factor2, Sub(t, Div(Num(T, 15, 10), bounce_factor))),
            Sub(t, Div(Num(T, 15, 10), bounce_factor))),
        Num(T, 9375, 10000))

outBounce_2(t) ==
    Add(Mul(Mul(bounce_factor2, Sub(t, Div(Num(T, 15, 10), bounce_factor))),
            Sub(t, Div(Num(T, 15, 10), bounce_factor))),
        Num(T, 75, 100))

\* the third segment about the point where it ends
outBounce_3_late(t) ==
    Add(Mul(Mul(bounce_factor2, Sub(t, Div(Num(T, 25, 10), bounce_factor))),
            Sub(t, Div(Num(T, 25, 10), bounce_factor))),
        Num(T, 9375, 10000))

outBounce_3(t) ==
    Add(Mul(Mul(bounce_factor2, Sub(t, Div(Num(T, 225, 100), bounce_factor))),
            Sub(t, Div(Num(T, 225, 100), bounce_factor))),
        Num(T, 9375, 10000))

outBounce_4(t) ==
    Add(Mul(Mul(bounce_factor2, Sub(t, Div(Num(T, 2625, 1000), bounce_factor))),
            Sub(t, Div(Num(T, 2625, 1000), bounce_factor))),
        Num(T, 984375, 1000000))

outBounce(t) ==
    If(Lt(t, Div(K1(T), bounce_factor)), outBounce_1(t),
       If(Lt(t, Div(K2(T), bounce_factor)), outBounce_2(t),
          If(Lt(t, Div(Num(T, 25, 10), bounce_factor)), outBounce_3(t), outBounce_4(t))))

inBounce(t) == Sub(K1(T), outBounce(Sub(K1(T), t)))

inOutBounce_1(t) == Mul(Sub(K1(T), outBounce(Sub(K1(T), Mul(K2(T), t)))), KHalf(T))

inOutBounce_2(t) == Mul(Add(K1(T), outBounce(Sub(Mul(K2(T), t), K1(T)))), KHalf(T))

inOutBounce(t) == If(Lt(t, KHalf(T)), inOutBounce_1(t), inOutBounce_2(t))

(***************************************************************************)
(* The names of the catalog, as the test tables list it.                   *)
(***************************************************************************)
Catalog ==
    LET Family == {"Sinusoidal", "Quadratic", "Cubic", "Quartic", "Quintic", "Exponential",
                   "Circular", "Back", "Elastic", "Bounce"}
    IN  {"linear"} \cup {"in" \o f : f \in Family} \cup {"out" \o f : f \in Family}
            \cup {"inOut" \o f : f \in Family}

\* the expression that the function fn returns on the arguments a
Body(fn, a) ==
    CASE fn = "linear" -> linear(a[1])
      [] fn = "inSinusoidal" -> inSinusoidal(a[1])
      [] fn = "outSinusoidal" -> outSinusoidal(a[1])
      [] fn = "inOutSinusoidal" -> inOutSinusoidal(a[1])
      [] fn = "inQuadratic" -> inQuadratic(a[1])
      [] fn = "outQuadratic" -> outQuadratic(a[1])
      [] fn = "inOutQuadratic" -> inOutQuadratic(a[1])
      [] fn = "inCubic" -> inCubic(a[1])
      [] fn = "outCubic" -> outCubic(a[1])
      [] fn = "inOutCubic" -> inOutCubic(a[1])
      [] fn = "inQuartic" -> inQuartic(a[1])
      [] fn = "outQuartic" -> outQuartic(a[1])
      [] fn = "inOutQuartic" -> inOutQuartic(a[1])
      [] fn = "inQuintic" -> inQuintic(a[1])
      [] fn = "outQuintic" -> outQuintic(a[1])
      [] fn = "inOutQuintic" -> inOutQuintic(a[1])
      [] fn = "inExponential" -> inExponential(a[1])
      [] fn = "outExponential" -> outExponential(a[1])
      [] fn = "inOutExponential" -> inOutExponential(a[1])
      [] fn = "inCircular" -> inCircular(a[1])
      [] fn = "outCircular" -> outCircular(a[1])
      [] fn = "inOutCircular" -> inOutCircular(a[1])
      [] fn = "inBack" -> inBack(a[1])
      [] fn = "outBack" -> outBack(a[1])
      [] fn = "inOutBack" -> inOutBack(a[1])
      [] fn = "inElastic" -> inElastic(a[1])
      [] fn = "outElastic" -> outElastic(a[1])
      [] fn = "inOutElastic" -> inOutElastic(a[1])
      [] fn = "inBounce" -> inBounce(a[1])
      [] fn = "outBounce" -> outBounce(a[1])
      [] fn = "inOutBounce" -> inOutBounce(a[1])
      [] fn = "inOutExponential_1" -> inOutExponential_1(a[1])
      [] fn = "inOutExponential_2" -> inOutExponential_2(a[1])
      [] fn = "inOutCircular_1" -> inOutCircular_1(a[1])
      [] fn = "inOutCircular_2" -> inOutCircular_2(a[1])
      [] fn = "inOutElastic_1" -> inOutElastic_1(a[1])
      [] fn = "inOutElastic_2" -> inOutElastic_2(a[1])
      [] fn = "sqrt" -> sqrt(a[1])
      [] fn = "sqrt_impl" -> sqrt_impl(a[1], a[2], a[3])
      [] fn = "exp" -> exp(a[1])
      [] fn = "exp_impl" -> exp_impl(a[1], a[2], a[3], a[4], a[5])
      [] fn = "log" -> log(a[1], a[2])
      [] fn = "pow_int" -> pow_int(a[1], a[2])
      [] fn = "pow" -> pow(a[1], a[2])
      [] fn = "sin" -> sin(a[1])
      [] fn = "cos" -> cos(a[1])
      [] fn = "sincos_impl" -> sincos_impl(a[1], a[2], a[3], a[4], a[5], a[6])
      \* a client's func(t) + func(1 - t), with func = a[2]
      [] fn = "mirrored" -> Add(Call(a[2], <<a[1]>>), Call(a[2], <<Sub(K1(T), a[1])>>))

(***************************************************************************)
(* The values the functions are called with.                               *)
(***************************************************************************)
\* t runs over i / Samples, as the test's loop does
Samples == 10
\* the exponents of pow(T, U) run over -MaxExp .. MaxExp, and INT_MIN
MaxExp == 6

Frac(i, n) == Div(OfInt(T, i), OfInt(T, n))

\* the values of a set of expressions
Values(S) == {V(x) : x \in S}

\* t in [0, 1], with the splice point 0.5, values within epsilon of the ends
\* and two values short of 1 by some thousandth of a percent, and t outside
\* [0, 1], infinite or no number
Ts ==
    Values({Frac(i, Samples) : i \in (0..Samples) \cup {-Samples, -1, Samples + 1, 2 * Samples}}
               \cup {KHalf(T), TwoTo(T, -24), Sub(K1(T), TwoTo(T, -24)),
                     Sub(K1(T), Mul(OfInt(T, 17), TwoTo(T, -24))),
                     Sub(K1(T), Mul(OfInt(T, 2707), TwoTo(T, -24))),
                     fneg(TwoTo(T, -24)), Inf(T, FALSE), Inf(T, TRUE), NaN(T)})

\* the test's table of sqrt, and around it
SqrtArgs ==
    Values({K0(T), Zero(T, TRUE), KHalf(T), K1(T), K2(T), OfInt(T, 4), Inf(T, FALSE),
            OfInt(T, -1), Inf(T, TRUE), fneg(TwoTo(T, -24)), TwoTo(T, -24), NaN(T),
            OfInt(T, 3), Frac(1, 10), Frac(1, 1000), OfInt(T, 1000000)})
PowBases == Values({K2(T), KHalf(T), K1(T), K0(T), OfInt(T, -2), OfInt(T, 3)})
\* the test's exponents
PowExps ==
    Values({Inf(T, FALSE), Inf(T, TRUE), K2(T), OfInt(T, -2), K1(T), OfInt(T, -1),
            KHalf(T), fneg(KHalf(T)), K0(T)})
PowIntBases == Values({K0(T), K2(T), KHalf(T), OfInt(T, 3), OfInt(T, -2), Frac(1, 10)})
\* the angles of the test, in T and in sin_type
Angles ==
    Values({K0(T), KHalf(T), K1(T), half_pi, pi, Neg(half_pi), OfInt(T, 6),
            K1(sin_type), Cast(sin_type, Neg(pi2)), OfInt(sin_type, -20)})
ExpArgs == Values({K0(T), K1(T), OfInt(T, -1), KHalf(T), OfInt(T, -7), K2(T)})

(***************************************************************************)
(* A client calls one function at a time.                                  *)
(*   pc     "idle", "run" (the call is being evaluated), "done" (it has    *)
(*          returned ret), "exhausted" (it recursed past MaxDepth),        *)
(*          "trapped" (an overflow ended the program)                      *)
(*   func, arg  the function called and its arguments                      *)
(*   stack  the calls in progress, the innermost last; a frame is          *)
(*          [fn, a, r, n]: r the values its calls returned so far, n       *)
(*          counts the calls that return through it                        *)
(*   calls  the functions called under func so far                         *)
(***************************************************************************)
VARIABLES pc, func, arg, stack, ret, calls

vars == <<pc, func, arg, stack, ret, calls>>

\* no value
None == [cls |-> "none", neg |-> FALSE, exp |-> 0, man |-> Man0, fmt |-> T]

Init ==
    /\ pc = "idle"
    /\ func = ""
    /\ arg = <<>>
    /\ stack = <<>>
    /\ ret = None
    /\ calls = {}

Frame(fn, a, n) == [fn |-> fn, a |-> a, r |-> <<>>, n |-> n]

Top == stack[Len(stack)]

RECURSIVE DepthFrom(_, _)
DepthFrom(s, i) == IF i > Len(s) THEN 0 ELSE s[i].n + DepthFrom(s, i + 1)
\* the number of calls in progress
Depth == DepthFrom(stack, 1)

Range(s) == {s[i] : i \in 1..Len(s)}

\* the next thing the innermost call does
Do == Eval(Body(Top.fn, Top.a), Top.r, 0)

\* the client calls fn(a[1], ..)
Enter(fn, a) ==
    /\ pc' = "run"
    /\ func' = fn
    /\ arg' = a
    /\ stack' = <<Frame(fn, a, 1)>>
    /\ ret' = None
    /\ calls' = {}

\* func(t) for a func of the catalog, as the test calls it through its table
call_easing == pc = "idle" /\ \E fn \in Catalog, t \in Ts : Enter(fn, <<t>>)
\* one of the two expressions of an in-out function at the splice point
call_half ==
    /\ pc = "idle"
    /\ \E f \in {"inOutExponential", "inOutCircular", "inOutElastic"}, h \in {"_1", "_2"} :
           Enter(f \o h, <<KHalf(T)>>)
\* func(t) + func(1 - t) for an in-out func with two expressions and t in
\* [0, 1]; of the t near 0, 1 - 2^-25 rounds to 1, and 1 - 1.125 * 2^-23 to a
\* value that equal_fp takes for 1
call_mirrored ==
    /\ pc = "idle"
    /\ \E X \in {"Quadratic", "Cubic", "Quartic", "Quintic", "Exponential", "Circular",
                 "Back", "Elastic", "Bounce"},
          t \in Ts \cup Values({TwoTo(T, -25), Add(TwoTo(T, -23), TwoTo(T, -26))}) :
           /\ fge(t, K0(T))
           /\ fle(t, K1(T))
           /\ Enter("mirrored", <<t, "inOut" \o X>>)
\* outBounce(t) at the t where one of its segments ends and the next begins
call_boundary ==
    /\ pc = "idle"
    /\ \E n \in {K1(T), K2(T), Num(T, 25, 10)} : Enter("outBounce", <<V(Div(n, bounce_factor))>>)
call_sqrt == pc = "idle" /\ \E x \in SqrtArgs : Enter("sqrt", <<x>>)
call_pow == pc = "idle" /\ \E x \in PowBases, y \in PowExps : Enter("pow", <<x, y>>)
call_pow_int ==
    /\ pc = "idle"
    /\ \E x \in PowIntBases, y \in ((-MaxExp)..MaxExp) \cup {INT_MIN} : Enter("pow_int", <<x, y>>)
call_sin == pc = "idle" /\ \E x \in Angles : Enter("sin", <<x>>)
call_cos == pc = "idle" /\ \E x \in Angles : Enter("cos", <<x>>)
call_exp == pc = "idle" /\ \E x \in ExpArgs : Enter("exp", <<x>>)

\* the call c begins: a tail call (return f(..)) takes the place of its
\* caller, any other call waits above it for the value
Begin(c) ==
    /\ stack' = IF c.tail
                THEN [stack EXCEPT ![Len(stack)] = Frame(c.fn, c.a, @.n + 1)]
                ELSE Append(stack, Frame(c.fn, c.a, 1))
    /\ calls' = calls \cup {c.fn}
    /\ UNCHANGED <<pc, func, arg, ret>>

\* the innermost call makes the call that its expression needs next
DoCall ==
    /\ pc = "run"
    /\ Depth < MaxDepth
    /\ \E c \in Range(Do.need) : c.fn # "overflow" /\ Begin(c)

\* the negation of pow(T, U) overflows and the build wraps it: -INT_MIN is
\* INT_MIN
Wrap ==
    /\ pc = "run"
    /\ Top.fn = "pow_int"
    /\ \E c \in Range(Do.need) :
           /\ c.fn = "overflow"
           /\ stack' = [stack EXCEPT ![Len(stack)].r = Append(@, INT_MIN)]
    /\ UNCHANGED <<pc, func, arg, ret, calls>>

\* the negation of pow(T, U) overflows and the build traps it: the program
\* ends
Trap ==
    /\ pc = "run"
    /\ Top.fn = "pow_int"
    /\ \E c \in Range(Do.need) :
           /\ c.fn = "overflow"
           /\ pc' = "trapped"
    /\ UNCHANGED <<func, arg, stack, ret, calls>>

\* the innermost call returns its value to its caller
DoReturn ==
    /\ pc = "run"
    /\ Len(stack) > 1
    /\ \E d \in {Do} :
           /\ d.need = <<>>
           /\ stack' = [SubSeq(stack, 1, Len(stack) - 1)
                            EXCEPT ![Len(stack) - 1].r = Append(@, d.v)]
    /\ UNCHANGED <<pc, func, arg, ret, calls>>

\* the function called returns to the client; its last frame stays on view
Finish ==
    /\ pc = "run"
    /\ Len(stack) = 1
    /\ \E d \in {Do} :
           /\ d.need = <<>>
           /\ pc' = "done"
           /\ ret' = d.v
    /\ UNCHANGED <<func, arg, stack, calls>>

\* one call more than the stack holds: the call never returns
Exhaust ==
    /\ pc = "run"
    /\ Depth >= MaxDepth
    /\ \E c \in Range(Do.need) :
           /\ c.fn # "overflow"
           /\ pc' = "exhausted"
    /\ UNCHANGED <<func, arg, stack, ret, calls>>

\* the client goes on to its next call
Reset ==
    /\ pc \in {"done", "exhausted", "trapped"}
    /\ pc' = "idle"
    /\ func' = ""
    /\ arg' = <<>>
    /\ stack' = <<>>
    /\ ret' = None
    /\ calls' = {}

Next ==
    \/ call_easing
    \/ call_half
    \/ call_mirrored
    \/ call_boundary
    \/ call_sqrt
    \/ call_pow
    \/ call_pow_int
    \/ call_sin
    \/ call_cos
    \/ call_exp
    \/ DoCall
    \/ Wrap
    \/ Trap
    \/ DoReturn
    \/ Finish
    \/ Exhaust
    \/ Reset

Spec == Init /\ [][Next]_vars

(***************************************************************************)
(* The claims.                                                             *)
(***************************************************************************)
\* the argument of a call of the catalog
t0 == arg[1]
In01(t) == fge(t, K0(T)) /\ fle(t, K1(T))
Near(x, y, k) == fle(abs(fsub(x, y)), fmul(IntAs(T, k), epsilon(T)))

C2_Finite ==
    func \in Catalog /\ In01(t0) =>
        /\ pc = "done" => isfinite(ret)
        /\ \A i \in 1..Len(stack) :
               stack[i].fn \in {"sqrt", "sqrt_impl"} => fge(stack[i].a[1], K0(T))

\* inCircular is inside sqrt_impl for a t strictly between 0 and 1
C2_Witness ==
    /\ pc = "run"
    /\ func = "inCircular"
    /\ flt(K0(T), t0) /\ flt(t0, K1(T))
    /\ Top.fn = "sqrt_impl"

C3_Out == {"outQuadratic", "outCubic", "outQuartic", "outQuintic", "outBounce"}
C3_In(fn, t) ==
    CASE fn = "outQuadratic" -> V(inQuadratic(t))
      [] fn = "outCubic" -> V(inCubic(t))
      [] fn = "outQuartic" -> V(inQuartic(t))
      [] fn = "outQuintic" -> V(inQuintic(t))
      [] fn = "outBounce" -> V(inBounce(t))
\* 1 - inX(1 - t) for the outX that was called
C3_Reflected == fsub(K1(T), C3_In(func, fsub(K1(T), t0)))

\* C3, as claimed: for X in Quadratic, Cubic, Quartic, Quintic, Bounce and
\* every t, outX(t) equals 1 - inX(1 - t).
C3_Original ==
    pc = "done" /\ func \in C3_Out => feq(ret, C3_Reflected)

\* C3: outX(t) equals 1 - inX(1 - t) exactly for X in Cubic, Quartic, Quintic
\* and every t that is a number; for Quadratic and Bounce and t in [0, 1] the
\* two differ by at most two machine epsilons.
C3_Reflection ==
    pc = "done" /\ func \in C3_Out =>
        IF func \in {"outCubic", "outQuartic", "outQuintic"}
        THEN ~IsNaN(t0) => feq(ret, C3_Reflected)
        ELSE In01(t0) => Near(ret, C3_Reflected, 2)

\* outQuadratic has returned, for a t in [0, 1], a value that is not the reflection
C3_Witness ==
    /\ pc = "done"
    /\ func = "outQuadratic"
    /\ In01(t0)
    /\ ~feq(ret, C3_Reflected)

C4_Pure == {"inOutQuadratic", "inOutCubic", "inOutQuartic", "inOutQuintic", "inOutBack",
            "inOutBounce"}
C4_Stepped == {"inOutExponential", "inOutCircular", "inOutElastic"}
\* the values of the two expressions of fn at t
C4_Halves(fn, t) ==
    CASE fn = "inOutQuadratic" -> <<V(inOutQuadratic_1(t)), V(inOutQuadratic_2(t))>>
      [] fn = "inOutCubic" -> <<V(inOutCubic_1(t)), V(inOutCubic_2(t))>>
      [] fn = "inOutQuartic" -> <<V(inOutQuartic_1(t)), V(inOutQuartic_2(t))>>
      [] fn = "inOutQuintic" -> <<V(inOutQuintic_1(t)), V(inOutQuintic_2(t))>>
      [] fn = "inOutBack" -> <<V(inOutBack_1(t)), V(inOutBack_2(t))>>
      [] fn = "inOutBounce" -> <<V(inOutBounce_1(t)), V(inOutBounce_2(t))>>

\* C4: at t = 0.5 the first-half and the second-half expression of every
\* in-out function but inOutSinusoidal have the same value, and inOutX(0.5)
\* returns it.  Of the functions that call the kernel each expression is run
\* on its own: both return 0.5, and so does inOutX.
C4_Splice ==
    /\ pc = "done" /\ func \in C4_Pure /\ feq(t0, KHalf(T)) =>
           /\ feq(C4_Halves(func, t0)[1], C4_Halves(func, t0)[2])
           /\ feq(ret, C4_Halves(func, t0)[1])
    /\ \A f \in C4_Stepped : func \in {f, f \o "_1", f \o "_2"} /\ feq(t0, KHalf(T)) =>
           /\ pc # "exhausted"
           /\ pc = "done" => feq(ret, KHalf(T))

\* the second-half expression of inOutElastic has returned at t = 0.5
C4_Witness ==
    /\ pc = "done"
    /\ func = "inOutElastic_2"
    /\ feq(t0, KHalf(T))
    /\ {"pow", "sin"} \subseteq calls

C5_Elastic == {"inElastic", "outElastic", "inOutElastic"}

C6_Formula(fn) ==
    IF fn \in {"inSinusoidal", "inOutSinusoidal"} THEN {"cos"}
    ELSE IF fn = "outSinusoidal" THEN {"sin"}
    ELSE IF fn \in {"inExponential", "outExponential", "inOutExponential"} THEN {"pow"}
    ELSE IF fn \in {"inCircular", "outCircular", "inOutCircular"} THEN {"sqrt"}
    ELSE IF fn \in C5_Elastic THEN {"pow", "sin"}
    ELSE {}

\* C6, as claimed: no catalog function checks the range of t; a t outside
\* [0, 1] is evaluated by the formula used inside [0, 1], so a call that has
\* returned has made the kernel calls of its formula.
C6_NoRangeCheck ==
    pc = "done" /\ func \in Catalog /\ ~In01(t0) => C6_Formula(func) \subseteq calls

\* C7: math::sqrt returns NaN for x < 0 and +infinity for x = +infinity, both
\* without entering sqrt_impl, and returns 0 for x = 0.
C7_SqrtEdges ==
    func = "sqrt" =>
        /\ flt(t0, K0(T)) => "sqrt_impl" \notin calls /\ (pc = "done" => IsNaN(ret))
        /\ feq(t0, Inf(T, FALSE)) =>
               "sqrt_impl" \notin calls /\ (pc = "done" => ret = Inf(T, FALSE))
        /\ feq(t0, K0(T)) => pc # "exhausted" /\ (pc = "done" => IsZero(ret))
        /\ (flt(t0, K0(T)) \/ feq(t0, Inf(T, FALSE))) => pc # "exhausted"

\* sqrt(-1) has returned NaN
C7_Witness ==
    /\ pc = "done"
    /\ func = "sqrt"
    /\ t0 = IntAs(T, -1)
    /\ IsNaN(ret)

\* C8, as claimed: for a finite x > 0 math::sqrt returns an iterate curr of
\* y' = 0.5 * (y + x / y) that is within epsilon of the iterate prev before
\* it, and the value agrees with the square root of x: its square is x within
\* four epsilons of x.
C8_Newton ==
    pc = "done" /\ func = "sqrt" /\ flt(K0(T), t0) /\ flt(t0, Inf(T, FALSE)) =>
        /\ Top.fn = "sqrt_impl"
        /\ ret = Top.a[2]
        /\ feq(Top.a[2], fmul(KHalf(T), fadd(Top.a[3], fdiv(t0, Top.a[3]))))
        /\ equal_fp(Top.a[2], Top.a[3])
        /\ fle(abs(fsub(fmul(ret, ret), t0)), fmul(fmul(IntAs(T, 4), epsilon(T)), t0))

\* the value of b to the y for the bases that T holds exactly; b to the
\* INT_MIN is beyond T, +infinity for a b below 1 and 0 for a b above
C9_Exact(x, y) ==
    IF y = 0 THEN K1(T)
    ELSE IF y = INT_MIN THEN (IF flt(abs(x), K1(T)) THEN Inf(T, FALSE) ELSE K0(T))
    ELSE IF x = KHalf(T) THEN TwoTo(T, -y)
    ELSE LET b == CHOOSE b \in {0, 2, 3, -2} : x = IntAs(T, b)
         IN  IF y > 0 THEN IntAs(T, b ^ y) ELSE fdiv(K1(T), IntAs(T, b ^ (-y)))
\* 0.1 to the y, rounded once
C9_Tenth(y) == IF y >= 0 THEN Lit(T, 1, 10 ^ y) ELSE IntAs(T, 10 ^ (-y))

\* C9, as claimed: for every x and every int y math::pow(x, y) returns x to
\* the y: 1 for y = 0, x for y = 1, the product of two pow(x, y / 2) for an
\* even y > 1, x * pow(x, y - 1) for an odd y > 1, and 1 / pow(x, -y) for
\* y < 0.  The value is the exact power where T holds it, and within 8
\* epsilons of it (relative) for x = 0.1.
C9_Power ==
    func = "pow_int" =>
        /\ pc \notin {"exhausted", "trapped"}
        /\ pc = "done" =>
               LET x == arg[1]
                   y == arg[2]
                   r == Top.r
               IN  /\ y = 0 => ret = K1(T)
                   /\ y = 1 => ret = x
                   /\ y > 1 /\ y % 2 = 0 =>
                          Len(r) = 2 /\ r[1] = r[2] /\ ret = fmul(r[1], r[2])
                   /\ y > 1 /\ y % 2 = 1 => Len(r) = 1 /\ ret = fmul(x, r[1])
                   /\ y < 0 => Len(r) = 1 /\ ret = fdiv(K1(T), r[1])
                   /\ IF x = V(Frac(1, 10)) /\ y # INT_MIN
                      THEN fle(abs(fsub(ret, C9_Tenth(y))),
                               fmul(fmul(IntAs(T, 8), epsilon(T)), C9_Tenth(y)))
                      ELSE feq(ret, C9_Exact(x, y))

\* the claim within -MaxExp .. MaxExp, where the negation is an int
C9_Small ==
    func = "pow_int" /\ arg[2] # INT_MIN => C9_Power

\* C10, as claimed: math::pow(x, y) returns +infinity for y = +infinity and 0
\* for y = -infinity whatever x is, without evaluating log or exp, and that
\* is what the platform's pow returns.
C10_InfiniteExponent ==
    func = "pow" /\ IsInf(arg[2]) =>
        /\ calls = {}
        /\ pc = "done" =>
               /\ ret = (IF arg[2].neg THEN K0(T) ELSE Inf(T, FALSE))
               /\ feq(ret, std_pow_inf(arg[1], arg[2]))

\* C11: every catalog function terminates for every t in [0, 1]: the
\* recursions of sqrt_impl, exp_impl, log and sincos_impl that it reaches
\* stop, so the call never runs out of stack, and a call in progress has a
\* next step: it returns a value or makes a call that the stack holds.
C11_Terminates ==
    func \in Catalog /\ In01(t0) =>
        /\ pc \notin {"exhausted", "trapped"}
        /\ pc = "run" => Do.need = <<>> \/ Depth < MaxDepth

\* inOutElastic has returned for a t in (0, 1) after recursions of exp_impl,
\* log and sincos_impl
C11_Witness ==
    /\ pc = "done"
    /\ func = "inOutElastic"
    /\ flt(K0(T), t0) /\ flt(t0, K1(T))
    /\ {"exp_impl", "log", "sincos_impl"} \subseteq calls

C13_Back == {"inBack", "outBack", "inOutBack"}
C13_Bounce == {"inBounce", "outBounce", "inOutBounce"}
\* a member of the family F, which calls no kernel function, returns a value
\* outside [0, 1] for a t strictly between 0 and 1
C13_Leaves(F) ==
    \E fn \in F, t \in Ts : flt(K0(T), t) /\ flt(t, K1(T)) /\ ~In01(V(Body(fn, <<t>>)))
\* at t = 0.5 inF has returned a value below 0 and outF a value above 1
C13_AtHalf(F) ==
    pc = "done" /\ feq(t0, KHalf(T)) =>
        /\ func = "in" \o F => flt(ret, K0(T))
        /\ func = "out" \o F => flt(K1(T), ret)

\* C13, as claimed: each of the back, elastic and bounce families leaves
\* [0, 1] in between the end points: a member of it returns a value below 0
\* or above 1 for a t strictly between 0 and 1.
C13_Original ==
    /\ pc = "idle" => C13_Leaves(C13_Bounce) /\ C13_Leaves(C13_Back)
    /\ C13_AtHalf("Elastic")

\* C13: the back and the elastic family leave [0, 1] in between the end
\* points: at t = 0.5 inBack and inElastic return a value below 0, outBack
\* and outElastic a value above 1.  The bounce family does not: for every t
\* in [0, 1] its three functions return a value in [0, 1].
C13_Overshoot ==
    /\ pc = "idle" => C13_Leaves(C13_Back)
    /\ C13_AtHalf("Back")
    /\ C13_AtHalf("Elastic")
    /\ pc = "done" /\ func \in C13_Bounce /\ In01(t0) => In01(ret)

\* outElastic has returned a value above 1 at t = 0.5
C13_Witness ==
    /\ pc = "done"
    /\ func = "outElastic"
    /\ feq(t0, KHalf(T))
    /\ flt(K1(T), ret)

C14_Families == {"Quadratic", "Cubic", "Quartic", "Quintic"}
\* 0.5 * inX(2t) when 2t < 1, and 0.5 * (outX(2t - 1) + 1) otherwise
C14_Spliced(X, t) ==
    V(If(Lt(Mul(t, K2(T)), K1(T)),
         Mul(KHalf(T), Body("in" \o X, <<Mul(t, K2(T))>>)),
         Mul(KHalf(T), Add(Body("out" \o X, <<Sub(Mul(t, K2(T)), K1(T))>>), K1(T)))))
\* the same value, no number being the same as no number
C14_Same(x, y) == feq(x, y) \/ (IsNaN(x) /\ IsNaN(y))

\* C14, as claimed: for X in Quadratic, Cubic, Quartic, Quintic and every t,
\* inOutX(t) is 0.5 * inX(2t) when 2t < 1 and 0.5 * (outX(2t - 1) + 1)
\* otherwise.
C14_Original ==
    \A X \in C14_Families :
        pc = "done" /\ func = "inOut" \o X => C14_Same(ret, C14_Spliced(X, t0))

\* C14: for X in Quadratic, Cubic, Quartic, Quintic and every t in [0, 1],
\* inOutX(t) is within machine epsilon of 0.5 * inX(2t) when 2t < 1 and of
\* 0.5 * (outX(2t - 1) + 1) otherwise.
C14_Halves ==
    \A X \in C14_Families :
        pc = "done" /\ func = "inOut" \o X /\ In01(t0) => Near(ret, C14_Spliced(X, t0), 1)

\* inOutQuintic has returned, for a t of the second half of [0, 1], a value
\* that is not the spliced one
C14_Witness ==
    /\ pc = "done"
    /\ func = "inOutQuintic"
    /\ In01(t0) /\ flt(KHalf(T), t0)
    /\ ~feq(ret, C14_Spliced("Quintic", t0))

C15_Exponential == {"inExponential", "outExponential", "inOutExponential"}
\* the end points that the function called tests for
C15_Tested ==
    IF func = "inExponential" THEN {K0(T)}
    ELSE IF func = "outExponential" THEN {K1(T)}
    ELSE {K0(T), K1(T)}

\* C15, as claimed: inExponential, outExponential and inOutExponential each
\* return 0 at t = 0 and 1 at t = 1 through a test of the end point, and
\* math::pow is not evaluated when t is exactly 0 or exactly 1.
C15_Original ==
    func \in C15_Exponential /\ t0 \in {K0(T), K1(T)} =>
        /\ "pow" \notin calls
        /\ pc = "done" => ret = t0

\* C15: inExponential tests for t = 0, outExponential for t = 1 and
\* inOutExponential for both; at an end point it tests for, the function
\* returns the end point and math::pow is not evaluated; at the other end
\* point, inExponential(1) and outExponential(0), math::pow(2, 0) is
\* evaluated and the function returns the end point all the same.
C15_Endpoints ==
    func \in C15_Exponential /\ t0 \in {K0(T), K1(T)} =>
        /\ pc # "exhausted"
        /\ t0 \in C15_Tested => calls = {}
        /\ pc = "done" =>
               /\ ret = t0
               /\ t0 \notin C15_Tested => "pow" \in calls

\* inExponential(1) has returned 1 from math::pow
C15_Witness ==
    /\ pc = "done"
    /\ func = "inExponential"
    /\ t0 = K1(T)
    /\ "pow" \in calls
    /\ ret = K1(T)

RECURSIVE C16_Fact(_)
\* m! for an m whose factorial is an int
C16_Fact(m) == IF m <= 1 THEN 1 ELSE m * C16_Fact(m - 1)
\* (-1)^k
C16_Sign(k) == IF k % 2 = 0 THEN 1 ELSE -1
RECURSIVE C16_Factorial(_, _)
\* m! in the type fmt
C16_Factorial(fmt, m) ==
    IF m <= 1 THEN K1(fmt) ELSE fmul(C16_Factorial(fmt, m - 1), IntAs(fmt, m))
RECURSIVE C16_Power(_, _)
\* x to the m
C16_Power(x, m) == IF m = 1 THEN x ELSE fmul(C16_Power(x, m - 1), x)
RECURSIVE C16_Taylor(_, _, _)
\* the Taylor polynomial of sin (m0 = 3) or cos (m0 = 2) with k terms after
\* its first, x or 1, as sum; t and n are the power and the factorial of the
\* term that comes next, of the degree m0 + 2k
C16_Taylor(x, m0, k) ==
    IF k = 0
    THEN [sum |-> IF m0 = 3 THEN x ELSE K1(x.fmt),
          t |-> C16_Power(x, m0),
          n |-> C16_Factorial(x.fmt, m0)]
    ELSE LET p == C16_Taylor(x, m0, k - 1)
             m == m0 + 2 * k
         IN  [sum |-> fadd(p.sum, fdiv(fmul(p.t, IntAs(x.fmt, C16_Sign(k))), p.n)),
              t |-> fmul(fmul(p.t, x), x),
              n |-> fmul(fmul(p.n, IntAs(x.fmt, m - 1)), IntAs(x.fmt, m))]

\* C16: under math::sin and math::cos the k-th call of sincos_impl (k >= 1)
\* holds the Taylor polynomial of the terms before the k-th as sum, and the
\* k-th term as t * s / n: for a recursion that math::sin started, of the
\* degree m = 2k + 1, with n = m!, i = m + 1, s = (-1)^k and t = x^m,
\* beginning with sum x, n 6, i 4, s -1, t x^3; for one that math::cos
\* started, of the degree m = 2k, beginning with sum 1, n 2, i 3, s -1,
\* t x^2.  The recursion returns its sum when, and only when, adding the
\* k-th term changes the sum by at most epsilon.
C16_Series ==
    pc \in {"run", "done"} /\ func \in {"sin", "cos"} /\ Top.fn = "sincos_impl" =>
        LET x == Top.a[1]
            m0 == IF func = "sin" THEN 3 ELSE 2
            m == Top.a[4] - 1
            k == (m - m0) \div 2 + 1
            p == C16_Taylor(x, m0, k - 1)
            \* (-1)^k * x^m / m!
            term == fdiv(fmul(C16_Power(x, m), IntAs(x.fmt, C16_Sign(k))),
                         C16_Factorial(x.fmt, m))
            stop == equal_fp(p.sum, fadd(p.sum, term))
        IN  /\ k >= 1
            /\ m = m0 + 2 * (k - 1)
            /\ k = Top.n - 1
            /\ Top.a[2] = p.sum
            /\ Top.a[3] = C16_Factorial(x.fmt, m)
            /\ Top.a[5] = C16_Sign(k)
            /\ Top.a[6] = C16_Power(x, m)
            /\ m <= 12 => Top.a[3] = IntAs(x.fmt, C16_Fact(m))
            /\ pc = "run" => (Do.need = <<>>) = stop
            /\ pc = "done" => stop /\ ret = Top.a[2]

\* math::sin has returned the Taylor polynomial of three terms or more after x
C16_Witness ==
    /\ pc = "done"
    /\ func = "sin"
    /\ Top.fn = "sincos_impl"
    /\ Top.n >= 4
    /\ ret = C16_Taylor(t0, 3, Top.n - 2).sum

RECURSIVE C17_Maclaurin(_, _)
\* the Maclaurin polynomial of e^x of the degree k as sum; t and n are the
\* power and the factorial of the term that comes next, of the degree k + 1
C17_Maclaurin(x, k) ==
    IF k = 0 THEN [sum |-> K1(x.fmt), t |-> x, n |-> K1(x.fmt)]
    ELSE LET p == C17_Maclaurin(x, k - 1)
         IN  [sum |-> fadd(p.sum, fdiv(p.t, p.n)),
              t |-> fmul(p.t, x),
              n |-> fmul(p.n, IntAs(x.fmt, k + 1))]

\* C17: under math::exp the k-th call of exp_impl (k >= 1, i = k + 1) holds the Maclaurin
\* polynomial of the degree k - 1 as sum, beginning with 1, and the k-th
\* term as t / n, with t = x^k and n = k!, beginning with x / 1.  The
\* recursion returns its sum when, and only when, adding the k-th term
\* changes the sum by at most epsilon.
C17_Series ==
    pc \in {"run", "done"} /\ func = "exp" /\ Top.fn = "exp_impl" =>
        LET x == Top.a[1]
            k == Top.a[4] - 1
            p == C17_Maclaurin(x, k - 1)
            \* x^k / k!
            term == fdiv(C16_Power(x, k), C16_Factorial(x.fmt, k))
            stop == equal_fp(p.sum, fadd(p.sum, term))
        IN  /\ k >= 1
            /\ k = Top.n - 1
            /\ Top.a[2] = p.sum
            /\ Top.a[3] = C16_Factorial(x.fmt, k)
            /\ Top.a[5] = C16_Power(x, k)
            /\ k <= 12 => Top.a[3] = IntAs(x.fmt, C16_Fact(k))
            /\ pc = "run" => (Do.need = <<>>) = stop
            /\ pc = "done" => stop /\ ret = Top.a[2]

\* math::exp(1) has returned the Maclaurin polynomial of a degree of 5 or more
C17_Witness ==
    /\ pc = "done"
    /\ func = "exp"
    /\ t0 = K1(T)
    /\ Top.fn = "exp_impl"
    /\ Top.n >= 7
    /\ ret = C17_Maclaurin(t0, Top.n - 2).sum


\* the function a client mirrors, and the two values it adds
C18_Func == arg[2]
C18_Mirrored == pc = "done" /\ func = "mirrored"

\* the sum is off 1 by no more than so many epsilons: the rounding of a few
\* operations where the function makes no call, the error of sqrt, pow and sin
\* where it calls them, and the step of inOutExponential and inOutElastic at
\* t = 0 and t = 1 where 1 - t is 1, or is taken for 1, and t is not 0
C18_Tolerance(fn) ==
    CASE fn = "inOutExponential" -> 8192
      [] fn = "inOutElastic" -> 1024
      [] fn = "inOutCircular" -> 512
      [] OTHER -> 2

\* C18 as stated: inOutX(t) + inOutX(1 - t) = 1 for every t in [0, 1].
C18_Original == C18_Mirrored => feq(ret, K1(T))

\* C18: for every in-out function of two expressions and every t in [0, 1],
\* inOutX(t) + inOutX(1 - t), computed in T, is 1 within a tolerance: two
\* epsilons for quadratic, cubic, quartic, quintic, back and bounce, 2^-14 for
\* circular, 2^-13 for elastic and 2^-10 for exponential.
C18_Symmetric ==
    C18_Mirrored =>
        /\ Len(Top.r) = 2
        /\ ret = fadd(Top.r[1], Top.r[2])
        /\ Near(ret, K1(T), C18_Tolerance(C18_Func))

\* t is just above epsilon and 1 - t within epsilon of 1: inOutExponential(t)
\* is 2^-11 and more, inOutExponential(1 - t) is 1, and the sum is more than 1
C18_Witness ==
    /\ C18_Mirrored
    /\ C18_Func = "inOutExponential"
    /\ flt(epsilon(T), t0)
    /\ flt(t0, TwoTo(T, -22))
    /\ feq(Top.r[2], K1(T))
    /\ flt(TwoTo(T, -12), Top.r[1])
    /\ ~Near(ret, K1(T), 4096)


\* the families that stay in range
C19_Bounded ==
    {"linear"} \cup {h \o X : h \in {"in", "out", "inOut"},
                              X \in {"Sinusoidal", "Quadratic", "Cubic", "Quartic", "Quintic",
                                     "Exponential", "Circular"}}

\* C19: for every t in [0, 1], every function of the linear, sinusoidal,
\* quadratic, cubic, quartic, quintic, exponential and circular families
\* returns a value in [0, 1].  (sin(t * half_pi) is above 1 at t = 1 - 17 * 2^-24,
\* and so is -0.5 * (cos(t * pi) - 1) at t = 1 - 2707 * 2^-24.)
C19_Range ==
    func \in C19_Bounded /\ In01(t0) =>
        /\ pc \notin {"exhausted", "trapped"}
        /\ pc = "done" => In01(ret)

\* the t where segment i of outBounce ends and segment i + 1 begins
C20_Boundary(i) ==
    V(Div(CASE i = 1 -> K1(T) [] i = 2 -> K2(T) [] i = 3 -> Num(T, 25, 10), bounce_factor))

\* the value of the expression of segment i at t
C20_Segment(i, t) ==
    V(CASE i = 1 -> outBounce_1(t)
        [] i = 2 -> outBounce_2(t)
        [] i = 3 -> outBounce_3(t)
        [] i = 4 -> outBounce_4(t))

\* t lies from the beginning of segment i up to its end
C20_Within(i, t) ==
    /\ i > 1 => fge(t, C20_Boundary(i - 1))
    /\ i < 4 => flt(t, C20_Boundary(i))

\* outBounce has returned for a t where segment i ends
C20_At(i) == pc = "done" /\ func = "outBounce" /\ t0 = C20_Boundary(i)

\* C20 as stated: at each boundary the expression of the segment ending there
\* and that of the segment starting there evaluate to the same value.
C20_Original ==
    \A i \in 1..3 : C20_At(i) => feq(C20_Segment(i, t0), C20_Segment(i + 1, t0))

\* C20: at each boundary of outBounce the expression of the segment ending
\* there and that of the segment starting there agree within one epsilon, and
\* the function returns the latter; the boundaries are in order, every t that
\* is a number lies within exactly one segment and the function returns the
\* value of that segment's expression; a t that is no number gets the last.
C20_Continuous ==
    pc = "done" /\ func = "outBounce" =>
        /\ \A i \in 1..3 :
               t0 = C20_Boundary(i) =>
                   /\ Near(C20_Segment(i, t0), C20_Segment(i + 1, t0), 1)
                   /\ ret = C20_Segment(i + 1, t0)
        /\ flt(K0(T), C20_Boundary(1))
        /\ flt(C20_Boundary(1), C20_Boundary(2))
        /\ flt(C20_Boundary(2), C20_Boundary(3))
        /\ flt(C20_Boundary(3), K1(T))
        /\ ~IsNaN(t0) =>
               /\ Cardinality({i \in 1..4 : C20_Within(i, t0)}) = 1
               /\ \A i \in 1..4 : C20_Within(i, t0) => ret = C20_Segment(i, t0)
        /\ IsNaN(t0) => ret = C20_Segment(4, t0)

\* at t = 2 / 2.75 the second segment ends with 1 and the third begins, and
\* is returned, with the value next below 1
C20_Witness ==
    /\ C20_At(2)
    /\ feq(C20_Segment(2, t0), K1(T))
    /\ ret = C20_Segment(3, t0)
    /\ ret = V(Sub(K1(T), TwoTo(T, -24)))


\* the exponent a is strictly closer to a base case than b: a base case is
\* y steps from a y >= 0, and one negation and -y steps from a y < 0
C21_Closer(a, b) ==
    IF b < 0 THEN (IF a < 0 THEN a > b ELSE a - 1 <= -(b + 1))
    ELSE a >= 0 /\ a < b

\* the calls of pow(T, U) in progress, the outermost first
C21_Exponents == [i \in 1..Len(stack) |-> stack[i].a[2]]

\* C21: the recursion of pow(T, U) reaches a base case (y = 0 or y = 1) for
\* every int y, the least included, whose negation wraps: the call does not
\* recurse without end, and each recursive call is made with an exponent
\* strictly closer to a base case than its caller's.
C21_Descent ==
    func = "pow_int" =>
        /\ pc # "exhausted"
        /\ \A i \in 2..Len(stack) : C21_Closer(C21_Exponents[i], C21_Exponents[i - 1])
        /\ pc = "run" /\ Do.need = <<>> /\ Top.r = <<>> => Top.a[2] \in {0, 1}

\* the claim for the exponents whose negation is an int
C21_Small ==
    func = "pow_int" /\ arg[2] # INT_MIN => C21_Descent

\* pow(x, INT_MIN) has called itself with INT_MIN, the wrapped negation
C21_Wrapped ==
    /\ func = "pow_int"
    /\ Len(stack) >= 2
    /\ C21_Exponents[1] = INT_MIN
    /\ C21_Exponents[2] = INT_MIN
====
